---- MODULE Spec2Model ----
(***************************************************************************)
(* Model of "Cleaning Crew Coordination/cleaning-bot.py": a grid with      *)
(* obstacles and dirty cells, A* path planning, the greedy load-balanced   *)
(* task assignment of two agents, route planning, the step-wise            *)
(* simulation of the two routes and the efficiency score.                  *)
(***************************************************************************)
EXTENDS Integers, Sequences, FiniteSets, TLC

(***************************************************************************)
(* Bounds of the model.  The script runs on a 15 x 20 grid with 30 dirty   *)
(* cells and random obstacles; the model explores every grid of            *)
(* GRID_H x GRID_W cells with at most MaxObstacles obstacles and every     *)
(* dirty set of at most MaxDirty cells.                                    *)
(***************************************************************************)
GRID_H == 3
GRID_W == 3
MaxObstacles == 2
MaxDirty == 3
\* size of the dirty sets passed to assign_tasks by an arbitrary caller
MaxArgDirty == 1
\* largest number of agent starts passed to assign_tasks
MaxAgents == 3
\* length of the task lists passed to plan_full_path by an arbitrary caller
MaxTasks == 2

\* 1e9, the default of gscore.get(neigh, 1e9)
NoScore == 1000000000
\* the "+ 200" of max_steps
StepMargin == 200

VARIABLES
    pc,                 \* position of the script / of the function under test
    grid,               \* grid[r][c]: 0 free, 1 obstacle
    agent_starts,       \* agent_starts[ag], ag in 0..1
    dirty,              \* set of dirty cells
    remaining,          \* assign_tasks: targets not yet assigned
    assignments,        \* assign_tasks: assignments[ag], a list of cells
    est_pos,            \* assign_tasks: est_pos[ag]
    est_len,            \* assign_tasks: est_len[ag]
    paths,              \* paths[ag], the route of plan_full_path
    cleaned,            \* simulation: set of cleaned cells
    agent_positions,    \* simulation: agent_positions[ag]
    agent_steps,        \* simulation: agent_steps[ag]
    agent_path_idx,     \* simulation: agent_path_idx[ag]
    history_positions,  \* simulation: history_positions[ag]
    max_steps,          \* simulation: range of the for loop
    step,               \* simulation: number of completed ticks
    total_steps,        \* agent_steps[0] + agent_steps[1]
    efficiency,         \* <<numerator, denominator>> of len(cleaned) / total_steps
    error,              \* the exception that ended the script, "none" if none
    a_start,            \* astar under test: start
    a_goal,             \* astar under test: goal
    a_result            \* astar under test: returned value

vars == <<pc, grid, agent_starts, dirty, remaining, assignments, est_pos, est_len,
          paths, cleaned, agent_positions, agent_steps, agent_path_idx,
          history_positions, max_steps, step, total_steps, efficiency, error,
          a_start, a_goal, a_result>>

allocVars == <<remaining, assignments, est_pos, est_len>>
simVars == <<cleaned, agent_positions, agent_steps, agent_path_idx,
             history_positions, step>>
astarVars == <<a_start, a_goal, a_result>>

Agents == {0, 1}
Rows == 0 .. (GRID_H - 1)
Cols == 0 .. (GRID_W - 1)
Cells == Rows \X Cols
\* cells outside the grid: one above the first row, one right of the last column
OutCells == {<<0 - 1, 0>>, <<GRID_H - 1, GRID_W>>}
\* the cells a caller may pass to astar, assign_tasks and plan_full_path
ArgCells == Cells \cup OutCells

Abs(x) == IF x < 0 THEN 0 - x ELSE x

\* the value None of Python; a path of astar always has at least one cell
None == <<>>

(***************************************************************************)
(* A* SEARCH                                                               *)
(***************************************************************************)
h(a, b) == Abs(a[1] - b[1]) + Abs(a[2] - b[2])

\* the move to the row above is missing
neighbors_noUp == <<<<1, 0>>, <<0, 1>>, <<0, 0 - 1>>>>

neighbors == <<<<1, 0>>, <<0 - 1, 0>>, <<0, 1>>, <<0, 0 - 1>>>>

\* grid[r][c] == 0 for an in-bounds cell: the test of line 65
CellOpen(g, nr, nc) ==
    /\ 0 <= nr /\ nr < GRID_H
    /\ 0 <= nc /\ nc < GRID_W
    /\ g[nr][nc] = 0

\* order of the heap entries (f, (r, c)): Python's tuple comparison
HeapLE(x, y) ==
    \/ x[1] < y[1]
    \/ /\ x[1] = y[1]
       /\ \/ x[2][1] < y[2][1]
          \/ x[2][1] = y[2][1] /\ x[2][2] <= y[2][2]

\* the largest entry is popped instead of the smallest
HeapMin_largest(heap) == CHOOSE x \in heap : \A y \in heap : HeapLE(y, x)

\* the entry heapq.heappop returns.  An entry (f, cell) is pushed only when
\* the cell's gscore strictly decreases, so no entry is pushed twice and
\* the heap is a set.
HeapMin(heap) == CHOOSE x \in heap : \A y \in heap : HeapLE(x, y)

\* gscore.get(neigh, 1e9)
GetScore(gscore, cell) == IF cell \in DOMAIN gscore THEN gscore[cell] ELSE NoScore

\* one pass of the loop over neighbors (lines 63-72) for direction d
Relax(s, current, goal, g, d) ==
    LET nr == current[1] + d[1]
        nc == current[2] + d[2]
        neigh == <<nr, nc>>
        tentative == s.gscore[current] + 1
    IN  IF CellOpen(g, nr, nc) /\ tentative < GetScore(s.gscore, neigh)
        THEN [heap   |-> s.heap \cup {<<tentative + h(neigh, goal), neigh>>},
              gscore |-> (neigh :> tentative) @@ s.gscore,
              came   |-> (neigh :> current) @@ s.came]
        ELSE s

RECURSIVE RelaxAll(_, _, _, _, _)
RelaxAll(s, current, goal, g, i) ==
    IF i > Len(neighbors) THEN s
    ELSE RelaxAll(Relax(s, current, goal, g, neighbors[i]), current, goal, g, i + 1)

\* lines 57-61: walk came from the goal, then reverse
RECURSIVE ReconstructPath(_, _)
ReconstructPath(came, current) ==
    IF current \in DOMAIN came
    THEN Append(ReconstructPath(came, came[current]), current)
    ELSE <<current>>

\* the while loop of lines 54-74
RECURSIVE AstarLoop(_, _, _)
AstarLoop(s, goal, g) ==
    IF s.heap = {} THEN None
    ELSE LET top == HeapMin(s.heap)
             current == top[2]
             popped == [s EXCEPT !.heap = s.heap \ {top}]
         IN  IF current = goal
             THEN ReconstructPath(s.came, current)
             ELSE AstarLoop(RelaxAll(popped, current, goal, g, 1), goal, g)

astar(start, goal, g) ==
    AstarLoop([heap   |-> {<<h(start, goal), start>>},
               gscore |-> (start :> 0),
               came   |-> <<>>],
              goal, g)

(***************************************************************************)
(* The script: configuration (lines 17-38)                                 *)
(***************************************************************************)
GridOf(obstacles) ==
    [r \in Rows |-> [c \in Cols |-> IF <<r, c>> \in obstacles THEN 1 ELSE 0]]

IsFree(g, cell) == cell \in Cells /\ g[cell[1]][cell[2]] = 0

\* the agent starts are not taken out of the free cells
free_cells_withStarts(g, starts) == {cell \in Cells : g[cell[1]][cell[2]] = 0}

\* lines 35-36
free_cells(g, starts) ==
    {cell \in Cells : g[cell[1]][cell[2]] = 0 /\ \A ag \in DOMAIN starts : starts[ag] # cell}

CornerStarts == [ag \in Agents |-> IF ag = 0 THEN <<0, 0>> ELSE <<GRID_H - 1, GRID_W - 1>>]

\* values of the variables a specification does not use
NoAstarCall == a_start = <<0, 0>> /\ a_goal = <<0, 0>> /\ a_result = None

\* lines 80-83 and 132-137 for the given starts and dirty set
InitRun(starts, d) ==
    /\ agent_starts = starts
    /\ dirty = d
    /\ remaining = d
    /\ assignments = [ag \in Agents |-> <<>>]
    /\ est_pos = [ag \in Agents |-> starts[ag]]
    /\ est_len = [ag \in Agents |-> 0]
    /\ paths = [ag \in Agents |-> <<>>]
    /\ cleaned = {}
    /\ agent_positions = [ag \in Agents |-> starts[ag]]
    /\ agent_steps = [ag \in Agents |-> 0]
    /\ agent_path_idx = [ag \in Agents |-> 0]
    /\ history_positions = [ag \in Agents |-> <<>>]
    /\ max_steps = 0
    /\ step = 0
    /\ total_steps = 0
    /\ efficiency = <<0, 0>>
    /\ error = "none"

\* lines 22-38: random obstacles, the two corner starts forced free, the
\* dirty cells sampled from the free cells that are not agent starts
Init ==
    /\ pc = "assign"
    /\ \E obstacles \in SUBSET (Cells \ {CornerStarts[0], CornerStarts[1]}) :
          /\ Cardinality(obstacles) <= MaxObstacles
          /\ grid = GridOf(obstacles)
    /\ \E d \in SUBSET free_cells(grid, CornerStarts) :
          /\ Cardinality(d) <= MaxDirty
          /\ InitRun(CornerStarts, d)
    /\ NoAstarCall

(***************************************************************************)
(* TASK ASSIGNMENT (lines 79-107)                                          *)
(***************************************************************************)
\* best = None, best_score = float('inf') (lines 86-87); best_score is
\* infinite exactly while best is None
NoBest == [found |-> FALSE, cell |-> <<>>, ag |-> 0, path |-> None, best_score |-> 0]

\* the paths astar returns in one round: astar(est_pos[ag], cell, grid) of
\* line 91 for every cell of the remaining set and both agents.  astar has
\* no state of its own, so a round's calls are evaluated once, whatever the
\* order in which the round enumerates the cells.
RECURSIVE PathsFrom(_, _, _)
PathsFrom(S, pos, g) ==
    IF S = {} THEN <<>>
    ELSE LET cell == CHOOSE x \in S : TRUE
         IN  (cell :> <<astar(pos[0], cell, g), astar(pos[1], cell, g)>>)
                 @@ PathsFrom(S \ {cell}, pos, g)

\* the score leaves out the length the agent has already been given
Consider_noLoad(b, cell, ag, path, len) ==
    LET score == Len(path) - 1
    IN  IF path = None THEN b
        ELSE IF (~b.found) \/ score < b.best_score
             THEN [found |-> TRUE, cell |-> cell, ag |-> ag, path |-> path,
                   best_score |-> score]
             ELSE b

\* a pair with a score equal to the best one replaces it
Consider_lastWins(b, cell, ag, path, len) ==
    LET score == len[ag] + Len(path) - 1
    IN  IF path = None THEN b
        ELSE IF (~b.found) \/ score <= b.best_score
             THEN [found |-> TRUE, cell |-> cell, ag |-> ag, path |-> path,
                   best_score |-> score]
             ELSE b

\* lines 92-97 for one (cell, ag), path being astar(est_pos[ag], cell, grid)
Consider(b, cell, ag, path, len) ==
    LET score == len[ag] + Len(path) - 1
    IN  IF path = None THEN b
        ELSE IF (~b.found) \/ score < b.best_score
             THEN [found |-> TRUE, cell |-> cell, ag |-> ag, path |-> path,
                   best_score |-> score]
             ELSE b

\* the inner loop looks at agent 0 only
RECURSIVE ScanFrom_agent0(_, _, _, _, _)
ScanFrom_agent0(b, order, i, found, len) ==
    IF i > Len(order) THEN b
    ELSE ScanFrom_agent0(Consider(b, order[i], 0, found[order[i]][1], len),
                         order, i + 1, found, len)

\* lines 89-97: "for cell in remaining" in the order the set is enumerated,
\* "for ag in [0,1]" inside; found[cell][ag + 1] is the path of (cell, ag)
RECURSIVE ScanFrom(_, _, _, _, _)
ScanFrom(b, order, i, found, len) ==
    IF i > Len(order) THEN b
    ELSE ScanFrom(Consider(Consider(b, order[i], 0, found[order[i]][1], len),
                           order[i], 1, found[order[i]][2], len),
                  order, i + 1, found, len)

ScanBest(order, found, len) == ScanFrom(NoBest, order, 1, found, len)

\* the orders in which Python may enumerate a set: any order of its elements
Orders(S) ==
    {o \in [1 .. Cardinality(S) -> S] : \A i, j \in 1 .. Cardinality(S) : o[i] = o[j] => i = j}

\* the pairs one round may select, over the orders of enumeration
RoundBests ==
    LET found == PathsFrom(remaining, est_pos, grid)
    IN  {ScanBest(order, found, est_len) : order \in Orders(remaining)}

\* remaining left as it is: the chosen cell stays a candidate
RemoveTask_kept(rem, best) == rem

\* line 105: remaining.remove(cell)
RemoveTask(rem, best) == rem \ {best.cell}

\* line 102: assignments[ag].append(cell)
AppendTask(asg, best) == [asg EXCEPT ![best.ag] = Append(@, best.cell)]

\* the length of the last leg alone is stored
AddLength_legOnly(len, best) == [len EXCEPT ![best.ag] = Len(best.path) - 1]

\* line 104: est_len[ag] = best_score
AddLength(len, best) == [len EXCEPT ![best.ag] = best.best_score]

\* one round of the while loop that commits a pair (lines 85-105)
AssignRound ==
    /\ pc = "assign"
    /\ remaining # {}
    /\ \E best \in RoundBests :
          /\ best.found
          /\ assignments' = AppendTask(assignments, best)
          /\ est_pos' = [est_pos EXCEPT ![best.ag] = best.cell]
          /\ est_len' = AddLength(est_len, best)
          /\ remaining' = RemoveTask(remaining, best)
    /\ UNCHANGED <<pc, grid, agent_starts, dirty, paths, max_steps, total_steps,
                   efficiency, error>>
    /\ UNCHANGED simVars
    /\ UNCHANGED astarVars

\* the round in which no pair has a path: "if best is None: break", return
AssignBreak ==
    /\ pc = "assign"
    /\ remaining # {}
    /\ \E best \in RoundBests : ~best.found
    /\ pc' = "plan"
    /\ UNCHANGED <<grid, agent_starts, dirty, paths, max_steps, total_steps,
                   efficiency, error>>
    /\ UNCHANGED allocVars
    /\ UNCHANGED simVars
    /\ UNCHANGED astarVars

\* "while remaining" is false: return assignments
AssignReturn ==
    /\ pc = "assign"
    /\ remaining = {}
    /\ pc' = "plan"
    /\ UNCHANGED <<grid, agent_starts, dirty, paths, max_steps, total_steps,
                   efficiency, error>>
    /\ UNCHANGED allocVars
    /\ UNCHANGED simVars
    /\ UNCHANGED astarVars

(***************************************************************************)
(* ROUTE PLANNING (lines 114-127) and the set-up of the simulation         *)
(***************************************************************************)
\* the whole leg is appended, its first cell included
RECURSIVE PlanFrom_withPivot(_, _, _, _, _)
PlanFrom_withPivot(pos, full, tasks, i, g) ==
    IF i > Len(tasks) THEN full
    ELSE LET t == tasks[i]
             p == astar(pos, t, g)
         IN  IF p # None
             THEN PlanFrom_withPivot(t, full \o p, tasks, i + 1, g)
             ELSE PlanFrom_withPivot(pos, full, tasks, i + 1, g)

\* lines 117-121: one pass of "for t in tasks" per task
RECURSIVE PlanFrom(_, _, _, _, _)
PlanFrom(pos, full, tasks, i, g) ==
    IF i > Len(tasks) THEN full
    ELSE LET t == tasks[i]
             p == astar(pos, t, g)
         IN  IF p # None
             THEN PlanFrom(t, full \o Tail(p), tasks, i + 1, g)
             ELSE PlanFrom(pos, full, tasks, i + 1, g)

\* the first task of the list is left out
plan_full_path_fromSecond(start, tasks, g) == PlanFrom(start, <<start>>, tasks, 2, g)

plan_full_path(start, tasks, g) == PlanFrom(start, <<start>>, tasks, 1, g)

Max(a, b) == IF a >= b THEN a ELSE b

\* the cap is the longest route, no margin added
StepCap_noMargin(p) == Max(Len(p[0]), Len(p[1]))

\* line 138: max_steps = max(len(paths[0]), len(paths[1])) + 200
StepCap(p) == Max(Len(p[0]), Len(p[1])) + StepMargin

\* lines 124-138
PlanRoutes ==
    /\ pc = "plan"
    /\ paths' = [ag \in Agents |-> plan_full_path(agent_starts[ag], assignments[ag], grid)]
    /\ max_steps' = StepCap(paths')
    /\ pc' = "sim"
    /\ UNCHANGED <<grid, agent_starts, dirty, total_steps, efficiency, error>>
    /\ UNCHANGED allocVars
    /\ UNCHANGED simVars
    /\ UNCHANGED astarVars

(***************************************************************************)
(* SIMULATION (lines 140-157)                                              *)
(***************************************************************************)
\* the position is added to cleaned without the test "in dirty"
Clean_always(cl, pos) == cl \cup {pos}

\* lines 149-150
Clean(cl, pos) == IF pos \in dirty THEN cl \cup {pos} ELSE cl

\* the step count grows in every tick, also when the agent stays
MoveAgent_stepsAlways(st, ag) ==
    LET canMove == st.idx[ag] + 1 < Len(paths[ag])
        idx == IF canMove THEN st.idx[ag] + 1 ELSE st.idx[ag]
        pos == IF canMove THEN paths[ag][idx + 1] ELSE st.pos[ag]
    IN  [idx     |-> [st.idx EXCEPT ![ag] = idx],
         pos     |-> [st.pos EXCEPT ![ag] = pos],
         steps   |-> [st.steps EXCEPT ![ag] = @ + 1],
         moved   |-> st.moved \/ canMove,
         cleaned |-> Clean(st.cleaned, pos),
         hist    |-> [st.hist EXCEPT ![ag] = Append(@, pos)]]

\* the body of "for ag in [0,1]" (lines 143-152) on the simulation state st
MoveAgent(st, ag) ==
    LET canMove == st.idx[ag] + 1 < Len(paths[ag])
        idx == IF canMove THEN st.idx[ag] + 1 ELSE st.idx[ag]
        \* paths[ag][idx] of Python is the element idx + 1 of the sequence
        pos == IF canMove THEN paths[ag][idx + 1] ELSE st.pos[ag]
    IN  [idx     |-> [st.idx EXCEPT ![ag] = idx],
         pos     |-> [st.pos EXCEPT ![ag] = pos],
         steps   |-> [st.steps EXCEPT ![ag] = IF canMove THEN @ + 1 ELSE @],
         moved   |-> st.moved \/ canMove,
         cleaned |-> Clean(st.cleaned, pos),
         hist    |-> [st.hist EXCEPT ![ag] = Append(@, pos)]]

\* the loop goes on although no agent moved
LoopExit_noBreak(moved, n) == IF n >= max_steps THEN "metrics" ELSE "sim"

\* the break is taken when an agent moved
LoopExit_breakOnMove(moved, n) == IF moved \/ n >= max_steps THEN "metrics" ELSE "sim"

\* where the script is after n passes of the loop, the last of which moved an
\* agent or not: "if not moved: break" (line 154), or range(max_steps) is
\* used up (line 140)
LoopExit(moved, n) == IF (~moved) \/ n >= max_steps THEN "metrics" ELSE "sim"

\* one pass of "for step in range(max_steps)": both agents, then the break
Tick ==
    /\ pc = "sim"
    /\ step < max_steps
    /\ LET st0 == [idx |-> agent_path_idx, pos |-> agent_positions,
                   steps |-> agent_steps, moved |-> FALSE,
                   cleaned |-> cleaned, hist |-> history_positions]
           st == MoveAgent(MoveAgent(st0, 0), 1)
       IN  /\ agent_path_idx' = st.idx
           /\ agent_positions' = st.pos
           /\ agent_steps' = st.steps
           /\ cleaned' = st.cleaned
           /\ history_positions' = st.hist
           /\ step' = step + 1
           /\ pc' = LoopExit(st.moved, step + 1)
    /\ UNCHANGED <<grid, agent_starts, dirty, paths, max_steps, total_steps,
                   efficiency, error>>
    /\ UNCHANGED allocVars
    /\ UNCHANGED astarVars

\* lines 156-157: the division raises ZeroDivisionError when total_steps is 0
Metrics ==
    /\ pc = "metrics"
    /\ total_steps' = agent_steps[0] + agent_steps[1]
    /\ IF total_steps' = 0
       THEN /\ error' = "ZeroDivisionError"
            /\ pc' = "crashed"
            /\ UNCHANGED efficiency
       ELSE /\ efficiency' = <<Cardinality(cleaned), total_steps'>>
            /\ pc' = "done"
            /\ UNCHANGED error
    /\ UNCHANGED <<grid, agent_starts, dirty, paths, max_steps>>
    /\ UNCHANGED allocVars
    /\ UNCHANGED simVars
    /\ UNCHANGED astarVars

(***************************************************************************)
(* astar called on its own: any grid, any start and goal of ArgCells       *)
(***************************************************************************)
InitAstar ==
    /\ pc = "astar"
    /\ \E obstacles \in SUBSET Cells :
          /\ Cardinality(obstacles) <= MaxObstacles
          /\ grid = GridOf(obstacles)
    /\ a_start \in ArgCells
    /\ a_goal \in ArgCells
    /\ a_result = None
    /\ InitRun(CornerStarts, {})

CallAstar ==
    /\ pc = "astar"
    /\ a_result' = astar(a_start, a_goal, grid)
    /\ pc' = "astar_returned"
    /\ UNCHANGED <<grid, agent_starts, dirty, paths, max_steps, total_steps,
                   efficiency, error, a_start, a_goal>>
    /\ UNCHANGED allocVars
    /\ UNCHANGED simVars

SpecAstar == InitAstar /\ [][CallAstar]_vars

(***************************************************************************)
(* assign_tasks and plan_full_path called by an arbitrary caller: any      *)
(* grid, any two starts and any dirty set of ArgCells                      *)
(***************************************************************************)
InitArgs ==
    /\ pc = "assign"
    /\ \E obstacles \in SUBSET Cells :
          /\ Cardinality(obstacles) <= MaxObstacles
          /\ grid = GridOf(obstacles)
    /\ \E starts \in [Agents -> ArgCells], d \in SUBSET ArgCells :
          /\ Cardinality(d) <= MaxArgDirty
          /\ InitRun(starts, d)
    /\ NoAstarCall

NextArgs ==
    \/ AssignRound
    \/ AssignBreak
    \/ AssignReturn
    \/ PlanRoutes

SpecArgs == InitArgs /\ [][NextArgs]_vars

(***************************************************************************)
(* plan_full_path called by an arbitrary caller: any grid, any start and   *)
(* any list of at most MaxTasks cells of ArgCells.  The two calls of       *)
(* lines 125-126 do not depend on each other, so the arguments of the      *)
(* first vary and those of the second are fixed.                           *)
(***************************************************************************)
TaskLists == UNION {[1 .. n -> ArgCells] : n \in 0 .. MaxTasks}

InitPlan ==
    /\ pc = "plan"
    /\ \E obstacles \in SUBSET Cells :
          /\ Cardinality(obstacles) <= MaxObstacles
          /\ grid = GridOf(obstacles)
    /\ \E start \in ArgCells, tasks \in TaskLists :
          /\ agent_starts = [ag \in Agents |-> IF ag = 0 THEN start ELSE CornerStarts[1]]
          /\ assignments = [ag \in Agents |-> IF ag = 0 THEN tasks ELSE <<>>]
    /\ dirty = {}
    /\ remaining = {}
    /\ est_pos = agent_starts
    /\ est_len = [ag \in Agents |-> 0]
    /\ paths = [ag \in Agents |-> <<>>]
    /\ cleaned = {}
    /\ agent_positions = agent_starts
    /\ agent_steps = [ag \in Agents |-> 0]
    /\ agent_path_idx = [ag \in Agents |-> 0]
    /\ history_positions = [ag \in Agents |-> <<>>]
    /\ max_steps = 0
    /\ step = 0
    /\ total_steps = 0
    /\ efficiency = <<0, 0>>
    /\ error = "none"
    /\ NoAstarCall

SpecPlan == InitPlan /\ [][PlanRoutes]_vars

(***************************************************************************)
(* assign_tasks called with a list of n agent starts, n in 1 .. MaxAgents  *)
(***************************************************************************)
\* the corners of the grid, the first two as in line 30
StartCorners == <<<<0, 0>>, <<GRID_H - 1, GRID_W - 1>>, <<0, GRID_W - 1>>, <<GRID_H - 1, 0>>>>

\* a list of n starts, indexed from 0 as in Python
StartList(n) == [i \in 0 .. (n - 1) |-> StartCorners[i + 1]]

InitAgents ==
    /\ pc = "call"
    /\ \E n \in 1 .. MaxAgents : agent_starts = StartList(n)
    /\ \E obstacles \in SUBSET (Cells \ {agent_starts[i] : i \in DOMAIN agent_starts}) :
          /\ Cardinality(obstacles) <= MaxObstacles
          /\ grid = GridOf(obstacles)
    /\ \E d \in SUBSET free_cells(grid, agent_starts) :
          /\ Cardinality(d) <= MaxDirty
          /\ dirty = d
    /\ remaining = {}
    /\ assignments = <<>>
    /\ est_pos = <<>>
    /\ est_len = <<>>
    /\ paths = [ag \in Agents |-> <<>>]
    /\ cleaned = {}
    /\ agent_positions = <<>>
    /\ agent_steps = [ag \in Agents |-> 0]
    /\ agent_path_idx = [ag \in Agents |-> 0]
    /\ history_positions = [ag \in Agents |-> <<>>]
    /\ max_steps = 0
    /\ step = 0
    /\ total_steps = 0
    /\ efficiency = <<0, 0>>
    /\ error = "none"
    /\ NoAstarCall

\* lines 80-83: agent_starts[1] raises IndexError for a list of one start
AssignCall ==
    /\ pc = "call"
    /\ assignments' = [ag \in Agents |-> <<>>]
    /\ IF 1 \in DOMAIN agent_starts
       THEN /\ est_pos' = [ag \in Agents |-> agent_starts[ag]]
            /\ est_len' = [ag \in Agents |-> 0]
            /\ remaining' = dirty
            /\ pc' = "assign"
            /\ UNCHANGED error
       ELSE /\ error' = "IndexError"
            /\ pc' = "crashed"
            /\ UNCHANGED <<est_pos, est_len, remaining>>
    /\ UNCHANGED <<grid, agent_starts, dirty, paths, max_steps, total_steps, efficiency>>
    /\ UNCHANGED simVars
    /\ UNCHANGED astarVars

NextAgents ==
    \/ AssignCall
    \/ AssignRound
    \/ AssignBreak
    \/ AssignReturn

SpecAgents == InitAgents /\ [][NextAgents]_vars

Next ==
    \/ AssignRound
    \/ AssignBreak
    \/ AssignReturn
    \/ PlanRoutes
    \/ Tick
    \/ Metrics

Spec == Init /\ [][Next]_vars

(***************************************************************************)
(* Properties                                                              *)
(***************************************************************************)
Range(seq) == {seq[i] : i \in DOMAIN seq}

Assigned == Range(assignments[0]) \cup Range(assignments[1])

\* C1: in every round of assign_tasks and when it returns, no target is in
\* two lists or twice in one list, and the targets of the two lists together
\* with the remaining set are exactly the dirty set.
C1_AssignmentPartition ==
    /\ Assigned \cup remaining = dirty
    /\ Assigned \cap remaining = {}
    /\ Range(assignments[0]) \cap Range(assignments[1]) = {}
    /\ \A ag \in Agents : Cardinality(Range(assignments[ag])) = Len(assignments[ag])

\* assign_tasks has returned, both agents have a target and one target is left
C1_Witness ==
    /\ pc = "plan"
    /\ Len(assignments[0]) >= 1
    /\ Len(assignments[1]) >= 1
    /\ remaining # {}

GridIsOpen == \A cell \in Cells : grid[cell[1]][cell[2]] = 0

\* C2: on a grid without obstacles, for an in-bounds start and goal, astar
\* returns a path whose number of moves is the Manhattan distance of the two.
C2_ManhattanOnOpenGrid ==
    (pc = "astar_returned" /\ GridIsOpen /\ a_start \in Cells /\ a_goal \in Cells)
        => /\ a_result # None
           /\ Len(a_result) - 1 = Abs(a_start[1] - a_goal[1]) + Abs(a_start[2] - a_goal[2])

\* a path between two opposite corners of the open grid
C2_Witness ==
    /\ pc = "astar_returned"
    /\ GridIsOpen
    /\ a_start = <<GRID_H - 1, 0>>
    /\ a_goal = <<0, GRID_W - 1>>
    /\ Len(a_result) = GRID_H + GRID_W - 1

\* C3: whenever astar returns a path, every cell of the path, the first and
\* the last included, is inside the grid and free.
C3_PathCellsFree ==
    (pc = "astar_returned" /\ a_result # None)
        => \A i \in 1 .. Len(a_result) : IsFree(grid, a_result[i])

\* the tasks from index i on can be matched to positions of the route that
\* are at or after position from and do not decrease
RECURSIVE VisitsInOrder(_, _, _, _)
VisitsInOrder(route, tasks, i, from) ==
    IF i > Len(tasks) THEN TRUE
    ELSE LET hits == {p \in from .. Len(route) : route[p] = tasks[i]}
         IN  /\ hits # {}
             /\ VisitsInOrder(route, tasks, i + 1,
                              CHOOSE p \in hits : \A q \in hits : p <= q)

RoutesPlanned == pc \in {"sim", "metrics", "done", "crashed"}

\* C4: the route plan_full_path builds for an agent contains every target of
\* the list assign_tasks gave it, at positions that follow the list's order.
C4_RouteVisitsAssigned ==
    RoutesPlanned
        => \A ag \in Agents : VisitsInOrder(paths[ag], assignments[ag], 1, 1)

\* an agent with three targets, the first of which is not on the way to the others
C4_Witness ==
    /\ RoutesPlanned
    /\ \E ag \in Agents :
          /\ Len(assignments[ag]) = 3
          /\ Len(paths[ag]) >= 5

\* C5: the cleaned set is a subset of the dirty set in every state of the
\* simulation, and no step removes a cell from it.
C5_CleanedSubsetMonotone ==
    /\ [](cleaned \subseteq dirty)
    /\ [][cleaned \subseteq cleaned']_vars

\* two cells cleaned, the second in a later tick than the first
C5_Witness ==
    /\ pc = "sim"
    /\ step >= 2
    /\ Cardinality(cleaned) >= 2
    /\ \E ag \in Agents : agent_positions[ag] \notin dirty

SimulationEnded == pc \in {"metrics", "done", "crashed"}

C7_ZeroStepsEfficiencyZero ==
    (pc \in {"done", "crashed"} /\ agent_steps[0] + agent_steps[1] = 0)
        => /\ error = "none"
           /\ efficiency[1] = 0

\* the cells joined to the cells of S by moves over free cells
RECURSIVE Grow(_, _)
Grow(g, S) ==
    LET N == S \cup {c \in Cells : IsFree(g, c) /\ \E x \in S : h(x, c) = 1}
    IN  IF N = S THEN S ELSE Grow(g, N)

ReachableFromStart(t) == \E ag \in Agents : t \in Grow(grid, {agent_starts[ag]})

\* C8: assign_tasks terminates: every round of its loop either returns or
\* takes a target out of the finite remaining set.  When it has returned, a
\* target is in some agent's list exactly when a path of free cells leads to
\* it from an agent start; a target no agent start reaches is never cleaned.
C8_UnassignedIffUnreachable ==
    /\ [][pc = "assign" => \/ pc' # "assign"
                           \/ Cardinality(remaining') < Cardinality(remaining)]_vars
    /\ [](pc # "assign" => \A t \in dirty : (t \in Assigned) <=> ReachableFromStart(t))
    /\ [](\A t \in dirty : ~ReachableFromStart(t) => t \notin cleaned)

\* the run is over, one target was out of reach and is left, another was
\* assigned to agent 1 and cleaned
C8_Witness ==
    /\ pc = "done"
    /\ remaining # {}
    /\ assignments[1] # <<>>
    /\ cleaned = Assigned

ValidArgs ==
    /\ \A ag \in Agents : IsFree(grid, agent_starts[ag])
    /\ \A t \in dirty : IsFree(grid, t)

\* C9: when an agent start or a target passed to assign_tasks or
\* plan_full_path is an obstacle or outside the grid, the call ends with an
\* explicit error and returns no assignment or route.
C9_InvalidInputRejected ==
    (pc # "assign" /\ ~ValidArgs) => error # "none"

\* C10: the lists assign_tasks returns depend on the starts, the dirty set
\* and the grid only, not on the order in which the remaining set is
\* enumerated.  Everything but that order is determined, so two runs on the
\* same inputs differ exactly when some round can commit two different
\* pairs: in every round all orders of enumeration select the same pair.
C10_AssignmentDeterministic ==
    (pc = "assign" /\ remaining # {})
        => Cardinality({<<b.found, b.cell, b.ag>> : b \in RoundBests}) = 1

LongestRoute == Max(Len(paths[0]), Len(paths[1]))

\* C11: the simulation loop terminates: every pass of it adds one tick and
\* the ticks never exceed max(len(route)) + 200; the loop goes on after a
\* tick in which an agent advanced (while ticks are left) and stops at the
\* end of the first tick in which no agent advanced.
C11_SimulationTerminates ==
    /\ [](RoutesPlanned => /\ max_steps = LongestRoute + StepMargin
                           /\ step <= max_steps
                           /\ (pc = "sim" => step < max_steps))
    /\ [][pc = "sim" => /\ step' = step + 1
                        /\ (agent_path_idx' = agent_path_idx => pc' = "metrics")
                        /\ (agent_path_idx' # agent_path_idx /\ step' < max_steps
                               => pc' = "sim")]_vars

\* the loop has stopped after four ticks, the last of which moved no agent
C11_Witness ==
    /\ pc = "metrics"
    /\ step = 4
    /\ \A ag \in Agents : agent_path_idx[ag] + 1 = Len(paths[ag])

\* C12: assign_tasks works for any number n >= 1 of agent starts: it returns
\* one list per agent 0 .. n-1 and every agent is a candidate for every
\* remaining target, so that no target an agent start reaches is left.
C12_AnyAgentCount ==
    /\ error = "none"
    /\ pc = "plan"
          => /\ DOMAIN assignments = DOMAIN agent_starts
             /\ \A t \in remaining :
                   \A i \in DOMAIN agent_starts : t \notin Grow(grid, {agent_starts[i]})

Adjacent(a, b) == Abs(a[1] - b[1]) + Abs(a[2] - b[2]) = 1

\* breadth-first search over the free cells: the number of moves from the
\* cells of frontier (d moves from the start) to goal, -1 if there is no way
RECURSIVE BfsDist(_, _, _, _, _)
BfsDist(g, seen, frontier, goal, d) ==
    IF goal \in frontier THEN d
    ELSE LET next == {c \in Cells \ seen : IsFree(g, c) /\ \E x \in frontier : Adjacent(x, c)}
         IN  IF next = {} THEN 0 - 1
             ELSE BfsDist(g, seen \cup next, next, goal, d + 1)

Distance(g, from, to) == BfsDist(g, {from}, {from}, to, 0)

\* C13: for a free start and goal, astar returns None exactly when no way
\* over free cells joins them; otherwise it returns a sequence from start to
\* goal whose consecutive cells are one cardinal move apart and whose number
\* of moves is the breadth-first-search distance.
C13_AstarShortest ==
    (pc = "astar_returned" /\ IsFree(grid, a_start) /\ IsFree(grid, a_goal))
        => LET d == Distance(grid, a_start, a_goal)
           IN  IF d < 0 THEN a_result = None
               ELSE /\ a_result # None
                    /\ a_result[1] = a_start
                    /\ a_result[Len(a_result)] = a_goal
                    /\ \A i \in 1 .. (Len(a_result) - 1) : Adjacent(a_result[i], a_result[i + 1])
                    /\ Len(a_result) - 1 = d

\* a shortest path that has to go round obstacles: more moves than the
\* Manhattan distance
C13_Witness ==
    /\ pc = "astar_returned"
    /\ IsFree(grid, a_start)
    /\ IsFree(grid, a_goal)
    /\ a_result # None
    /\ Len(a_result) - 1 > Abs(a_start[1] - a_goal[1]) + Abs(a_start[2] - a_goal[2])

\* a round of assign_tasks that commits a pair
Commits == pc = "assign" /\ remaining' # remaining

\* the pair (t, ag) has a path in the current round
HasPath(ag, t) == Distance(grid, est_pos[ag], t) >= 0

\* candidateScore of the pair (t, ag) in the current round
CandidateScore(ag, t) == est_len[ag] + Distance(grid, est_pos[ag], t)

\* C14: the pair a round commits has the least candidateScore = est_len[ag]
\* + shortest-path moves from est_pos[ag] to the target among all pairs of a
\* remaining target and an agent that have a path; the commit appends the
\* target to that agent's list, moves est_pos[ag] to the target, sets
\* est_len[ag] to the score, removes the target from remaining and leaves
\* the other agent's est_pos, est_len and list as they are.
C14_CommitsGlobalMinimum ==
    [][Commits =>
        \E ag \in Agents, t \in remaining :
            /\ HasPath(ag, t)
            /\ \A ag2 \in Agents, t2 \in remaining :
                  HasPath(ag2, t2) => CandidateScore(ag, t) <= CandidateScore(ag2, t2)
            /\ assignments' = [assignments EXCEPT ![ag] = Append(@, t)]
            /\ est_pos' = [est_pos EXCEPT ![ag] = t]
            /\ est_len' = [est_len EXCEPT ![ag] = CandidateScore(ag, t)]
            /\ remaining' = remaining \ {t}]_vars

\* both agents have been given targets, agent 0 two of them: the later
\* rounds were decided with lengths already accumulated
C14_Witness ==
    /\ pc = "plan"
    /\ Len(assignments[0]) = 2
    /\ Len(assignments[1]) = 1
    /\ est_len[0] > est_len[1]

\* C15: when both agents have the same candidateScore for the target a round
\* commits, the target goes to agent 0.
C15_TieGoesToAgent0 ==
    [][Commits =>
        \A t \in remaining \ remaining' :
            (HasPath(0, t) /\ HasPath(1, t) /\ CandidateScore(0, t) = CandidateScore(1, t))
                => assignments' = [assignments EXCEPT ![0] = Append(@, t)]]_vars

\* the first round has committed a target that is as far from one start as
\* from the other
C15_Witness ==
    /\ Len(assignments[0]) = 1
    /\ assignments[1] = <<>>
    /\ Distance(grid, agent_starts[0], assignments[0][1])
          = Distance(grid, agent_starts[1], assignments[0][1])

AtRouteEnd(ag) == agent_path_idx[ag] + 1 = Len(paths[ag])

\* C16: in every state of the simulation and for every agent, agent_steps
\* equals agent_path_idx, the index is at most len(paths[ag]) - 1 and
\* agent_positions is the cell of the route at that index; a tick advances
\* the index by at most one, and an agent on its last index keeps index,
\* position and step count.
C16_IndexPositionSteps ==
    /\ [](RoutesPlanned =>
             \A ag \in Agents :
                /\ agent_steps[ag] = agent_path_idx[ag]
                /\ agent_path_idx[ag] <= Len(paths[ag]) - 1
                /\ agent_positions[ag] = paths[ag][agent_path_idx[ag] + 1])
    /\ [][pc = "sim" =>
             \A ag \in Agents :
                /\ agent_path_idx'[ag] \in {agent_path_idx[ag], agent_path_idx[ag] + 1}
                /\ AtRouteEnd(ag) => /\ agent_path_idx'[ag] = agent_path_idx[ag]
                                     /\ agent_positions'[ag] = agent_positions[ag]
                                     /\ agent_steps'[ag] = agent_steps[ag]]_vars

\* agent 0 has finished a route of several cells and has waited a tick
\* while agent 1 is still on its way
C16_Witness ==
    /\ pc = "sim"
    /\ Len(paths[0]) >= 3
    /\ AtRouteEnd(0)
    /\ step > agent_steps[0]
    /\ ~AtRouteEnd(1)

\* C17: the route plan_full_path returns begins with the start cell and each
\* two consecutive cells of it are one cardinal move apart, also when a
\* target of the list has no path and is skipped.
C17_RouteIsContinuous ==
    pc = "sim"
        => \A ag \in Agents :
              /\ Len(paths[ag]) >= 1
              /\ paths[ag][1] = agent_starts[ag]
              /\ \A i \in 1 .. (Len(paths[ag]) - 1) : Adjacent(paths[ag][i], paths[ag][i + 1])

\* a list of two targets: the first has no path and is skipped, the route
\* goes on to the second
C17_Witness ==
    /\ pc = "sim"
    /\ Len(assignments[0]) = 2
    /\ astar(agent_starts[0], assignments[0][1], grid) = None
    /\ Len(paths[0]) >= 3
    /\ paths[0][Len(paths[0])] = assignments[0][2]

C19_EstimateIsRouteLength ==
    /\ RoutesPlanned => \A ag \in Agents : est_len[ag] = Len(paths[ag]) - 1
    /\ SimulationEnded => \A ag \in Agents : agent_steps[ag] = Len(paths[ag]) - 1

\* both agents got two targets and the run ended
C19_Witness ==
    /\ pc = "done"
    /\ \A ag \in Agents : Len(assignments[ag]) >= 1 /\ est_len[ag] >= 2
    /\ \E ag \in Agents : Len(assignments[ag]) >= 2

\* C20: the cap max_steps never ends the simulation: the tick that leaves
\* the loop moved no agent and ticks are still left, and the loop has then
\* run exactly max(len(route)) ticks, every agent is on the last cell of
\* its route, and each agent's history has one entry per executed tick.
C20_CapNeverEndsLoop ==
    /\ [](SimulationEnded
             => /\ step = LongestRoute
                /\ step < max_steps
                /\ \A ag \in Agents :
                      /\ AtRouteEnd(ag)
                      /\ agent_positions[ag] = paths[ag][Len(paths[ag])]
                      /\ Len(history_positions[ag]) = step)
    /\ [](RoutesPlanned => \A ag \in Agents : Len(history_positions[ag]) = step)
    /\ [][pc = "sim" /\ pc' = "metrics"
             => agent_path_idx' = agent_path_idx /\ step' < max_steps]_vars

\* routes of different lengths: the loop stopped after five ticks, the
\* agent with the shorter route waiting on its last cell
C20_Witness ==
    /\ pc = "metrics"
    /\ step = 5
    /\ Len(paths[0]) # Len(paths[1])
    /\ \A ag \in Agents : Len(history_positions[ag]) = 5

====
